---- MODULE Spec2Model ----
(***************************************************************************)
(* SystemTemplateHook (sweagent/agent/hooks/system_template_hook.py).      *)
(*                                                                         *)
(* A hook object holds instance_id, instance_templates_dir and the flag    *)
(* template_loaded.  on_init reads <dir>/<instance_id>.yaml, extracts a    *)
(* system_template string from the parsed document and writes it into      *)
(* agent.templates.system_template.  on_model_query logs when the flag is  *)
(* set and the conversation holds exactly one message.                     *)
(*                                                                         *)
(* Strings are sequences of one-character strings, so that str.strip() is  *)
(* computed and not assumed.  YAML values are tagged records.  The file    *)
(* system is outside the hook: the state of the override file at the time  *)
(* of a call is an input of that call.                                     *)
(***************************************************************************)
EXTENDS Naturals, Sequences, FiniteSets, TLC

VARIABLES
    agent,            \* the host agent object (shape and holder value)
    template_loaded,  \* self.template_loaded
    calls,            \* on_init calls made so far
    writes,           \* assignments to agent.templates.system_template so far
    lastInit,         \* record of the latest on_init call
    lastQuery         \* record of the latest on_model_query call

vars == <<agent, template_loaded, calls, writes, lastInit, lastQuery>>

----------------------------------------------------------------------------
\* Bounds of the model.

\* on_init calls in one behaviour
MaxCalls == 2
\* longest message sequence handed to on_model_query
MaxMsgs == 2

----------------------------------------------------------------------------
\* Values.

Whitespace == {" ", "\n"}

\* A parsed YAML value.
Str(s) == [t |-> "str", s |-> s]
Num == [t |-> "num"]
List == [t |-> "list"]
Null == [t |-> "null"]
Map(m) == [t |-> "map", m |-> m]

EmptyMap == [k \in {} |-> Null]

\* Strings found in override files: empty, whitespace only, surrounded by
\* whitespace, plain, with inner and trailing whitespace.
Strings ==
    { <<>>,
      <<" ">>,
      <<" ", "a", " ">>,
      <<"b">>,
      <<"a", " ", "b", "\n">> }

\* Values that are not mappings, met in the middle of a key-path.
Scalars == { Str(<<"b">>), Num, List, Null }

\* Values met at the end of a key-path.
FinalVals ==
    { Str(s) : s \in Strings }
        \cup { Num, List, Null, Map("text" :> Str(<<"b">>)) }

\* The mappings holding key k with a value of vals, or not holding it.
Opt(k, vals) == { EmptyMap } \cup { k :> v : v \in vals }

TemplatesVals ==
    Scalars \cup { Map(m) : m \in Opt("system_template", FinalVals) }

AgentVals ==
    Scalars \cup
    { Map(m1 @@ m2) : m1 \in Opt("templates", TemplatesVals),
                      m2 \in Opt("system_template", FinalVals) }

\* Every document over the three recognised keys, and the documents that are
\* no mapping at all (an empty file parses to null).
Docs ==
    { Map(a @@ b @@ c) : a \in Opt("agent", AgentVals),
                         b \in Opt("templates", TemplatesVals),
                         c \in Opt("system_template", FinalVals) }
        \cup Scalars

----------------------------------------------------------------------------
\* _extract_system_template

PathsToTrySwapped ==
    << <<"agent", "templates", "system_template">>,
       <<"templates", "system_template">>,
       <<"agent", "system_template">>,
       <<"system_template">> >>

PathsToTry ==
    << <<"agent", "templates", "system_template">>,
       <<"templates", "system_template">>,
       <<"system_template">>,
       <<"agent", "system_template">> >>

RECURSIVE LStrip(_)
LStrip(s) ==
    IF s # <<>> /\ Head(s) \in Whitespace THEN LStrip(Tail(s)) ELSE s

RECURSIVE RStrip(_)
RStrip(s) ==
    IF s # <<>> /\ s[Len(s)] \in Whitespace
    THEN RStrip(SubSeq(s, 1, Len(s) - 1))
    ELSE s

StripLeftOnly(s) == LStrip(s)

\* str.strip()
Strip(s) == RStrip(LStrip(s))

\* current = current[key]: a mapping holding the key yields its value; a
\* mapping without it raises KeyError, any other value raises TypeError.
Subscript(current, key) ==
    IF current.t = "map"
    THEN IF key \in DOMAIN current.m
         THEN [ok |-> TRUE, v |-> current.m[key]]
         ELSE [ok |-> FALSE, v |-> Null]
    ELSE [ok |-> FALSE, v |-> Null]

\* for key in path: current = current[key]
RECURSIVE Descend(_, _)
Descend(current, path) ==
    IF path = <<>>
    THEN [ok |-> TRUE, v |-> current]
    ELSE LET r == Subscript(current, Head(path))
         IN  IF r.ok THEN Descend(r.v, Tail(path)) ELSE r

UsableUnstripped(current) == current.t = "str" /\ current.s # <<>>

\* isinstance(current, str) and current.strip()
Usable(current) == current.t = "str" /\ Strip(current.s) # <<>>

\* for path in paths_to_try, from the i-th on; "" when none matches
RECURSIVE TryPaths(_, _)
TryPaths(config, i) ==
    IF i > Len(PathsToTry)
    THEN <<>>
    ELSE LET d == Descend(config, PathsToTry[i])
         IN  IF d.ok /\ Usable(d.v)
             THEN Strip(d.v.s)
             ELSE TryPaths(config, i + 1)

ExtractSystemTemplate(config) == TryPaths(config, 1)

----------------------------------------------------------------------------
\* The override file and the agent.

File(st, doc) == [st |-> st, doc |-> doc]

\* No file; stat fails with an error pathlib does not take for absence
\* (EACCES on the directory); open fails; the YAML parser rejects the text.
AbsentFile == File("absent", Null)
StatErrorFile == File("stat_error", Null)
UnreadableFile == File("unreadable", Null)
UnparsableFile == File("unparsable", Null)

\* Path.exists(): False for ENOENT, True for a file; on another stat error
\* it raises OSError or, in interpreters where it swallows every OSError,
\* answers False.
ExistsOutcomes(f) ==
    CASE f.st = "absent" -> {"false"}
      [] f.st = "stat_error" -> {"raise", "false"}
      [] OTHER -> {"true"}

\* The document holding value v at key-path p and nothing else.
RECURSIVE Nest(_, _)
Nest(p, v) == IF p = <<>> THEN v ELSE Map(Head(p) :> Nest(Tail(p), v))

\* The four recognised shapes, each with every final value.
ShapeDocs == { Nest(PathsToTry[k], v) : k \in 1..4, v \in FinalVals }

NoFileStates == { AbsentFile, StatErrorFile, UnreadableFile, UnparsableFile }

\* Files of the life-cycle specification.
LifeFiles ==
    NoFileStates
        \cup { File("parsed", d) : d \in ShapeDocs \cup Scalars \cup {Map(EmptyMap)} }

\* Files of the first-load specification.
AllFiles == NoFileStates \cup { File("parsed", d) : d \in Docs }

\* An agent without templates, with templates lacking system_template, or
\* with a holder and its current value.
NoTemplates == [kind |-> "no_templates", system_template |-> Null]
NoSystemTemplate == [kind |-> "no_system_template", system_template |-> Null]
Holder(v) == [kind |-> "holder", system_template |-> v]

DefaultTemplate == <<"b", " ", "a">>

\* The holder starts empty, with the host's default text, or with None.
InitAgents ==
    { NoTemplates, NoSystemTemplate,
      Holder(Str(<<>>)), Holder(Str(DefaultTemplate)), Holder(Null) }

\* hasattr(agent, 'templates') and hasattr(agent.templates, 'system_template')
HasHolder(ag) == ag.kind = "holder"

\* len(x) is defined
Sized(v) == v.t \in {"str", "list", "map"}

----------------------------------------------------------------------------
\* on_init

Result(ag, loaded, events, raised) ==
    [ agent |-> ag, loaded |-> loaded, events |-> events, raised |-> raised,
      extracted |-> <<>> ]

AbsentReturnResetsFlag(ag, loaded) == Result(ag, FALSE, <<"info_absent">>, FALSE)

\* lines 44-46: no file, log and return
AbsentReturn(ag, loaded) == Result(ag, loaded, <<"info_absent">>, FALSE)

ApplyOverrideFlagFirst(ag, loaded, tpl) ==
    IF HasHolder(ag)
    THEN Result(Holder(Str(tpl)), TRUE,
                <<"setflag", "write", "info_success", "debug_lengths">>, FALSE)
    ELSE Result(ag, TRUE, <<"setflag", "warn_no_attr">>, FALSE)

ApplyOverrideTwice(ag, loaded, tpl) ==
    IF HasHolder(ag)
    THEN Result(Holder(Str(tpl)), TRUE,
                <<"write", "setflag", "info_success", "write", "setflag">>, FALSE)
    ELSE Result(ag, loaded, <<"warn_no_attr">>, FALSE)

ApplyOverrideAppend(ag, loaded, tpl) ==
    IF HasHolder(ag)
    THEN IF ag.system_template.t = "str"
         THEN Result(Holder(Str(ag.system_template.s \o tpl)), TRUE,
                     <<"write", "setflag", "info_success", "debug_lengths">>, FALSE)
         ELSE Result(ag, loaded, <<"error">>, FALSE)
    ELSE Result(ag, loaded, <<"warn_no_attr">>, FALSE)

\* lines 59-66: with a holder, assign, set the flag, log success, then log
\* the two lengths; len(original_template) raises TypeError for a value
\* without a length, which the handler of line 70 logs.
ApplyOverride(ag, loaded, tpl) ==
    IF HasHolder(ag)
    THEN LET original_template == ag.system_template
         IN  IF Sized(original_template)
             THEN Result(Holder(Str(tpl)), TRUE,
                         <<"write", "setflag", "info_success", "debug_lengths">>,
                         FALSE)
             ELSE Result(Holder(Str(tpl)), TRUE,
                         <<"write", "setflag", "info_success", "error">>,
                         FALSE)
    ELSE Result(ag, loaded, <<"warn_no_attr">>, FALSE)

\* lines 48-71: the guarded part of on_init
LoadAndApply(f, ag, loaded) ==
    IF f.st \in {"unreadable", "unparsable"}
    THEN Result(ag, loaded, <<"info_loading", "error">>, FALSE)
    ELSE LET system_template == ExtractSystemTemplate(f.doc)
         IN  IF system_template # <<>>
             THEN LET r == ApplyOverride(ag, loaded, system_template)
                  IN  [ r EXCEPT !.events = <<"info_loading">> \o r.events,
                                 !.extracted = system_template ]
             ELSE Result(ag, loaded, <<"info_loading", "warn_no_template">>,
                         FALSE)

\* lines 42-71, for one outcome of template_file.exists()
OnInitRun(f, ex, ag, loaded) ==
    CASE ex = "raise" -> Result(ag, loaded, <<>>, TRUE)
      [] ex = "false" -> AbsentReturn(ag, loaded)
      [] OTHER -> LoadAndApply(f, ag, loaded)

Count(events, e) == Cardinality({ i \in 1..Len(events) : events[i] = e })

OnInitWith(f) ==
    \E ex \in ExistsOutcomes(f) :
        LET r == OnInitRun(f, ex, agent, template_loaded)
        IN  /\ agent' = r.agent
            /\ template_loaded' = r.loaded
            /\ calls' = calls + 1
            /\ writes' = writes + Count(r.events, "write")
            /\ lastInit' = [ file |-> f,
                             pre_agent |-> agent,
                             pre_loaded |-> template_loaded,
                             events |-> r.events,
                             raised |-> r.raised,
                             extracted |-> r.extracted,
                             same_file |-> calls > 0 /\ lastInit.file = f,
                             prev_applied |->
                                 calls > 0 /\ Count(lastInit.events, "write") > 0 ]
            /\ UNCHANGED lastQuery

OnInit ==
    /\ calls < MaxCalls
    /\ \E f \in LifeFiles : OnInitWith(f)

----------------------------------------------------------------------------
\* on_model_query

QuerySignalAnyLength(loaded, n) == loaded /\ n >= 1

\* line 113: self.template_loaded and len(messages) == 1
QuerySignal(loaded, n) == loaded /\ n = 1

\* lines 104-114: nothing but the log line; no field of the hook or of the
\* agent is assigned
OnModelQueryRun(ag, loaded, n) ==
    [ agent |-> ag, loaded |-> loaded,
      emitted |-> QuerySignal(loaded, n), raised |-> FALSE ]

OnModelQuery ==
    \E n \in 0..MaxMsgs :
        LET r == OnModelQueryRun(agent, template_loaded, n)
        IN  /\ agent' = r.agent
            /\ template_loaded' = r.loaded
            /\ lastQuery' = [ called |-> TRUE,
                              n |-> n,
                              emitted |-> r.emitted,
                              raised |-> r.raised,
                              pre_agent |-> agent,
                              pre_loaded |-> template_loaded,
                              post_agent |-> r.agent,
                              post_loaded |-> r.loaded ]
            /\ UNCHANGED <<calls, writes, lastInit>>

----------------------------------------------------------------------------
\* Specifications.

NoInit ==
    [ file |-> AbsentFile, pre_agent |-> NoTemplates, pre_loaded |-> FALSE,
      events |-> <<>>, raised |-> FALSE, extracted |-> <<>>,
      same_file |-> FALSE,
      prev_applied |-> FALSE ]

NoQuery ==
    [ called |-> FALSE, n |-> 0, emitted |-> FALSE, raised |-> FALSE,
      pre_agent |-> NoTemplates, pre_loaded |-> FALSE,
      post_agent |-> NoTemplates, post_loaded |-> FALSE ]

\* __init__ (lines 31-34), and the agent the host built
Init ==
    /\ agent \in InitAgents
    /\ template_loaded = FALSE
    /\ calls = 0
    /\ writes = 0
    /\ lastInit = NoInit
    /\ lastQuery = NoQuery

Next == OnInit \/ OnModelQuery

\* The life cycle: any sequence of the two callbacks on one hook.
Spec == Init /\ [][Next]_vars

\* The first on_init of a fresh hook, over every document.
FirstOnInit ==
    /\ calls = 0
    /\ \E f \in AllFiles : OnInitWith(f)

NextLoad == FirstOnInit

SpecLoad == Init /\ [][NextLoad]_vars

----------------------------------------------------------------------------
\* What the properties speak of, stated apart from the extraction code.

HasKey(v, k) == v.t = "map" /\ k \in DOMAIN v.m

\* The value a document holds at key-path k of the specification's list, as
\* a set: empty when a key is absent or a value on the way is no mapping.
ValueAt(d, k) ==
    CASE k = 1 ->
           IF /\ HasKey(d, "agent")
              /\ HasKey(d.m["agent"], "templates")
              /\ HasKey(d.m["agent"].m["templates"], "system_template")
           THEN { d.m["agent"].m["templates"].m["system_template"] }
           ELSE {}
      [] k = 2 ->
           IF /\ HasKey(d, "templates")
              /\ HasKey(d.m["templates"], "system_template")
           THEN { d.m["templates"].m["system_template"] }
           ELSE {}
      [] k = 3 ->
           IF HasKey(d, "system_template")
           THEN { d.m["system_template"] }
           ELSE {}
      [] OTHER ->
           IF /\ HasKey(d, "agent")
              /\ HasKey(d.m["agent"], "system_template")
           THEN { d.m["agent"].m["system_template"] }
           ELSE {}

\* A string with non-whitespace content.
HoldsText(v) ==
    v.t = "str" /\ \E i \in 1..Len(v.s) : v.s[i] \notin Whitespace

\* The key-paths at which the document holds a string with content.
Hits(d) == { k \in 1..4 : \E v \in ValueAt(d, k) : HoldsText(v) }

LowestHit(d) == CHOOSE k \in Hits(d) : \A j \in Hits(d) : k <= j

\* t is s without its leading and trailing whitespace.
IsTrimOf(t, s) ==
    \E i \in 1..Len(s), j \in 1..Len(s) :
        /\ i <= j
        /\ t = SubSeq(s, i, j)
        /\ s[i] \notin Whitespace
        /\ s[j] \notin Whitespace
        /\ \A k \in 1..(i - 1) : s[k] \in Whitespace
        /\ \A k \in (j + 1)..Len(s) : s[k] \in Whitespace

\* A non-empty string with no whitespace at either end.
Clean(s) ==
    /\ s # <<>>
    /\ s[1] \notin Whitespace
    /\ s[Len(s)] \notin Whitespace

Called == calls >= 1
Logged(e) == Count(lastInit.events, e) > 0
Parsed == Called /\ lastInit.file.st = "parsed"

\* The first index of event e in the latest on_init, 0 when it is not there.
FirstAt(e) ==
    IF Logged(e)
    THEN CHOOSE i \in 1..Len(lastInit.events) :
            /\ lastInit.events[i] = e
            /\ \A j \in 1..(i - 1) : lastInit.events[j] # e
    ELSE 0

----------------------------------------------------------------------------
\* C1: no on_init call propagates an exception to its caller, whatever the
\* state of the override file and the shape of the agent.
C1_OnInitNeverRaises == Called => ~lastInit.raised

\* An on_init call ended in one of its failure modes: file absent, no usable
\* value, no holder on the agent, or an exception logged at error severity.
FailureMode ==
    \/ Logged("info_absent")
    \/ Logged("warn_no_template")
    \/ Logged("warn_no_attr")
    \/ Logged("error")

\* C2: an on_init call that ends in a failure mode leaves the agent's
\* template unchanged and template_loaded false; when the error branch is
\* taken, the call has neither written the agent nor set the flag.
C2_FailureLeavesStateUntouched ==
    (Called /\ FailureMode) =>
        /\ agent = lastInit.pre_agent
        /\ template_loaded = FALSE
        /\ (Logged("error") => ~Logged("write") /\ ~Logged("setflag"))

\* C3: with a string with content at one or more of the four key-paths and
\* an agent that has the holder, on_init sets the agent's template to the
\* trimmed string of the lowest-numbered such path and sets template_loaded.
C3_LowestPathApplied ==
    (Parsed /\ Hits(lastInit.file.doc) # {} /\ lastInit.pre_agent.kind = "holder") =>
        /\ agent.kind = "holder"
        /\ agent.system_template.t = "str"
        /\ \A v \in ValueAt(lastInit.file.doc, LowestHit(lastInit.file.doc)) :
               IsTrimOf(agent.system_template.s, v.s)
        /\ template_loaded = TRUE

\* Two key-paths hold different texts, and the one applied is the earlier.
C3_Witness ==
    /\ Parsed
    /\ lastInit.pre_agent.kind = "holder"
    /\ template_loaded
    /\ \E j \in Hits(lastInit.file.doc), k \in Hits(lastInit.file.doc) :
           /\ j < k
           /\ \E v \in ValueAt(lastInit.file.doc, j), w \in ValueAt(lastInit.file.doc, k) :
                  /\ IsTrimOf(agent.system_template.s, v.s)
                  /\ ~IsTrimOf(agent.system_template.s, w.s)
                  /\ v.s # agent.system_template.s

\* C4: a key-path whose descent fails, or whose value is an empty string, a
\* whitespace-only string or no string, is a miss and the next path is
\* tried: extraction returns the trimmed string of the first path that is
\* no miss, and the empty string when all four miss, in which case on_init
\* leaves the agent's template unchanged and template_loaded false.
C4_MissesFallThrough ==
    Parsed =>
        IF Hits(lastInit.file.doc) = {}
        THEN /\ lastInit.extracted = <<>>
             /\ agent = lastInit.pre_agent
             /\ template_loaded = lastInit.pre_loaded
             /\ (writes = 0 => template_loaded = FALSE)
        ELSE \A v \in ValueAt(lastInit.file.doc, LowestHit(lastInit.file.doc)) :
                 IsTrimOf(lastInit.extracted, v.s)

\* All four paths miss, for three different reasons: a whitespace-only
\* string, a value that is no string, and a descent that fails.
C4_Witness ==
    /\ Parsed
    /\ Hits(lastInit.file.doc) = {}
    /\ lastInit.extracted = <<>>
    /\ \E k \in 1..4 : ValueAt(lastInit.file.doc, k) = { Str(<<" ">>) }
    /\ \E k \in 1..4 : ValueAt(lastInit.file.doc, k) = { Num }
    /\ \E k \in 1..4 : ValueAt(lastInit.file.doc, k) = {}
    /\ lastInit.pre_agent.kind = "holder"

\* C5 as stated: an on_init call made while no file exists does not raise,
\* leaves the agent unchanged and leaves template_loaded false, whatever
\* calls came before.
C5_AbsentLeavesFlagFalse ==
    (Called /\ lastInit.file.st = "absent") =>
        /\ ~lastInit.raised
        /\ agent = lastInit.pre_agent
        /\ template_loaded = lastInit.pre_loaded
        /\ template_loaded = FALSE

\* C5 amended: an on_init call made while no file exists does not raise and
\* leaves the agent and template_loaded as they were: the flag is false when
\* no earlier call applied an override and true when one did.
C5_AbsentLeavesStateUnchanged ==
    (Called /\ lastInit.file.st = "absent") =>
        /\ ~lastInit.raised
        /\ agent = lastInit.pre_agent
        /\ template_loaded = lastInit.pre_loaded
        /\ template_loaded = (writes > 0)

\* The file is gone after an earlier call applied an override.
C5_Witness ==
    /\ Called
    /\ lastInit.file.st = "absent"
    /\ lastInit.pre_loaded
    /\ Logged("info_absent")

\* C6: for an agent without templates, or whose templates lack
\* system_template, on_init does not change the agent, does not set
\* template_loaded and does not raise, whether the file is absent,
\* unreadable, unparsable, without a usable value or with one.
C6_NoHolderNoEffect ==
    (/\ Called
     /\ lastInit.pre_agent.kind # "holder"
     /\ lastInit.file.st \in {"absent", "unreadable", "unparsable", "parsed"}) =>
        /\ agent = lastInit.pre_agent
        /\ template_loaded = lastInit.pre_loaded
        /\ ~Logged("write")
        /\ ~Logged("setflag")
        /\ ~lastInit.raised

\* A usable override was found and the agent had no place for it.
C6_Witness ==
    /\ Parsed
    /\ lastInit.pre_agent.kind = "no_system_template"
    /\ Hits(lastInit.file.doc) # {}
    /\ Logged("warn_no_attr")

\* C7: on_model_query logs exactly when template_loaded is true and there is
\* one message; it changes neither the flag nor the agent and does not raise.
C7_QuerySignal ==
    lastQuery.called =>
        /\ lastQuery.emitted <=> (lastQuery.pre_loaded /\ lastQuery.n = 1)
        /\ lastQuery.post_loaded = lastQuery.pre_loaded
        /\ lastQuery.post_agent = lastQuery.pre_agent
        /\ ~lastQuery.raised

\* The first query of a run whose override was applied.
C7_Witness ==
    /\ lastQuery.called
    /\ lastQuery.emitted
    /\ lastQuery.n = 1
    /\ writes > 0

\* C8 as stated: over any sequence of calls the loader writes the agent's
\* template at most once and sets the flag at most once in its lifetime.
C8_AtMostOneWriteEver ==
    /\ writes <= 1
    /\ Count(lastInit.events, "write") <= 1
    /\ Count(lastInit.events, "setflag") <= 1

\* C8 amended: one on_init call writes the agent's template at most once
\* and sets the flag at most once; over the life of the loader there are at
\* most as many writes as on_init calls.
C8_AtMostOneWritePerCall ==
    /\ Count(lastInit.events, "write") <= 1
    /\ Count(lastInit.events, "setflag") <= 1
    /\ writes <= calls

\* Two calls, each of which applied the override once.
C8_Witness ==
    /\ calls = 2
    /\ writes = 2
    /\ Count(lastInit.events, "write") = 1

\* C9: after an on_init that applied an override, a second on_init with the
\* same file and the same agent writes the same value again: the agent's
\* template and template_loaded are what they were after the first call.
C9_SecondCallIdempotent ==
    (calls >= 2 /\ lastInit.prev_applied /\ lastInit.same_file) =>
        /\ Logged("write")
        /\ agent = lastInit.pre_agent
        /\ template_loaded = lastInit.pre_loaded
        /\ template_loaded = TRUE

\* The second of two calls on the same file, the first having applied it.
C9_Witness ==
    /\ calls >= 2
    /\ lastInit.prev_applied
    /\ lastInit.same_file
    /\ lastInit.file.st = "parsed"
    /\ Logged("write")

\* In every state: the flag is true only if an on_init has assigned the
\* agent's template; in a call the assignment comes before the flag is set;
\* a value the loader assigned is a non-empty string with no whitespace at
\* its ends.
FlagFollowsWrite ==
    /\ template_loaded => writes >= 1
    /\ Logged("setflag") => (Logged("write") /\ FirstAt("write") < FirstAt("setflag"))
    /\ Logged("write") =>
           /\ agent.kind = "holder"
           /\ agent.system_template.t = "str"
           /\ Clean(agent.system_template.s)

\* C10: template_loaded is false after construction; FlagFollowsWrite holds
\* in every reachable state; once true, the flag is never reset by a later
\* on_init or on_model_query.
C10_FlagInvariant ==
    /\ template_loaded = FALSE
    /\ []FlagFollowsWrite
    /\ [][template_loaded => template_loaded']_vars

\* The flag stays true through a later on_init that applies nothing.
C10_Witness ==
    /\ calls >= 2
    /\ template_loaded
    /\ writes = 1
    /\ ~Logged("write")
    /\ lastInit.pre_loaded

====
